---- MODULE Spec2Model ----
(***************************************************************************)
(* Model of the risk classifier of the AI CRM assistant                    *)
(* (src/src/llm_client.py): the lexical trigger detector, the response     *)
(* cache, the HTTP retry loop of LLMClient._post and the parse / validate  *)
(* / guard / store pipeline of LLMClient.assess_risk_llm, and of its       *)
(* caller, the batch loop and the day counters of src/app_streamlit.py.    *)
(*                                                                         *)
(* Conventions.                                                            *)
(*  - Cyrillic text is transliterated (TLA+ strings are ASCII).            *)
(*  - A customer message is a sequence of words (the text split at         *)
(*    whitespace); a reason or an action is a sequence of tokens, where    *)
(*    " " and ";" are single characters and every other token is a word.   *)
(*  - A float is a record [k, v]: k = "num" with v the value in            *)
(*    thousandths (1.5 is 1500), or k = "nan" (v = 0).  Infinities are     *)
(*    mapped by the clamp before they can be stored, see ScoreToFloat.     *)
(*  - The sha256 fingerprint is modelled as the canonical serialisation    *)
(*    it hashes (collisions of sha256 are not modelled).                   *)
(***************************************************************************)
EXTENDS Integers, Sequences, FiniteSets, TLC

VARIABLES
    max_retries,  \* LLMClient.max_retries (SETTINGS.request_max_retries)
    cache,        \* _CACHE: fingerprint -> verdict
    pc,           \* "idle" | "post" (inside the loop of _post) | "received"
    features,     \* the feature record of the current / last call
    attempt,      \* loop variable of _post
    sent,         \* requests sent to the endpoint by the current / last call
    data,         \* the last answer of the endpoint to the current call
    outcome,      \* "none" | "returned" | "raised"
    hit,          \* the last call returned from the cache (line 139)
    result,       \* the verdict returned by the last call
    error,        \* the exception raised by the last call ("" when none)
    rows,         \* app_streamlit: the rows of df, in order
    row_idx,      \* app_streamlit: position of the loop over df.iterrows()
    results,      \* app_streamlit: the lists scores / levels / reasons / actions
    df_out,       \* app_streamlit: st.session_state["df_out"] (<<>> while unset)
    bpc,          \* app_streamlit: "ready" | "loop" | "done" | "aborted"
    inv           \* unsynchronised invocations of assess_risk_llm, one per thread

\* The state of one sequential invocation, of the batch run, of the threads.
callvars == <<pc, features, attempt, sent, data, outcome, hit, result, error>>
batchvars == <<rows, row_idx, results, df_out, bpc>>

vars == <<max_retries, cache, pc, features, attempt, sent, data, outcome, hit, result, error,
          rows, row_idx, results, df_out, bpc, inv>>

\* Largest configured REQUEST_MAX_RETRIES explored (the value is read from
\* the environment; 0 is explored as the degenerate setting).
MaxRetries == 2

(***************************************************************************)
(* Lexical trigger detector                                                *)
(***************************************************************************)

\* str.lower() on the words of the modelled vocabulary.
LowerWord(w) ==
    CASE w = "Pozzhe" -> "pozzhe"
      [] w = "Davajte" -> "davajte"
      [] w = "DOROGO" -> "dorogo"
      [] w = "Cherez" -> "cherez"
      [] w = "Svyazatsya" -> "svyazatsya"
      [] w = "Svyazhites" -> "svyazhites"
      [] w = "Perenos" -> "perenos"
      [] w = "Pozvonit" -> "pozvonit"
      [] w = "Zaplanirujte" -> "zaplanirujte"
      [] w = "GREEN" -> "green"
      [] w = "Red" -> "red"
      [] w = "None" -> "none"
      [] OTHER -> w

LowerText(t) == [i \in 1..Len(t) |-> LowerWord(t[i])]

\* Words of the vocabulary that begin with "nedel" / "otkazh" (the open
\* ends of the patterns "\bcherez\s+nedel" and "\botkazh\w*\b").
NedelWords == {"nedelyu", "nedele"}
OtkazhWords == {"otkazhemsya", "otkazhus"}

\* A pattern is a sequence of word sets: it matches at position i when the
\* words i, i+1, ... belong to its successive sets.
POSTPONE_PATTERNS ==
    { <<{"cherez"}, NedelWords>>,
      <<{"na"}, {"sleduyushchej", "sleduyushchuyu"}, NedelWords>>,
      <<{"pozzhe"}>>,
      <<{"davajte"}, {"pozzhe"}>>,
      <<{"perenesyom", "perenesem"}>>,
      <<{"svyazhem", "svyazhemsya"}, {"pozzhe"}>>,
      <<{"vernyomsya", "vernemsya"}, {"pozzhe"}>> }

PRICE_PATTERNS ==
    { <<{"dorogo"}>>,
      <<{"byudzhet", "byudzheta", "byudzhetu"}, {"net"}>>,
      <<{"byudzhetnet"}>> }

CHOOSE_OTHER_PATTERNS ==
    { <<{"vybrali"}, {"drugogo"}>>,
      <<{"ostanovilis", "ostanovilisya"}, {"na"}>> }

REFUSAL_PATTERNS ==
    { <<OtkazhWords>>, <<{"neinteresno"}>> }

\* re.search(p, t): the pattern matches somewhere in the text.
MatchAt(p, t, i) ==
    /\ i + Len(p) - 1 <= Len(t)
    /\ \A j \in 1..Len(p) : t[i + j - 1] \in p[j]

any_match(pats, t) == \E p \in pats : \E i \in 1..Len(t) : MatchAt(p, t, i)

\* The list built by semantic_triggers, in its fixed order of appends.
semantic_triggers(text) ==
    LET t == LowerText(text)
        a == IF any_match(POSTPONE_PATTERNS, t) THEN <<"postpone">> ELSE <<>>
        b == IF any_match(PRICE_PATTERNS, t) THEN <<"price_objection">> ELSE <<>>
        c == IF any_match(CHOOSE_OTHER_PATTERNS, t) THEN <<"chose_other">> ELSE <<>>
        d == IF any_match(REFUSAL_PATTERNS, t) THEN <<"refusal">> ELSE <<>>
    IN  a \o b \o c \o d

InSeq(x, s) == \E i \in 1..Len(s) : s[i] = x

(***************************************************************************)
(* Feature record, threshold triggers and fingerprint                      *)
(***************************************************************************)

NoReplyHighDays == 14
NoReplyMediumDays == 7
StageAgeHighDays == 14
StageAgeMediumDays == 7

\* Mutant of active_triggers: two independent ifs instead of if / elif.
ActiveTriggersNoElif(lcd, sad) ==
    (IF lcd > NoReplyHighDays THEN <<"no_reply_high">> ELSE <<>>)
    \o (IF lcd > NoReplyMediumDays THEN <<"no_reply_medium">> ELSE <<>>)
    \o (IF sad > StageAgeHighDays THEN <<"stage_age_high">> ELSE <<>>)
    \o (IF sad > StageAgeMediumDays THEN <<"stage_age_medium">> ELSE <<>>)

\* Lines 118-127: at most one label per dimension, chosen by if / elif.
active_triggers(lcd, sad) ==
    (IF lcd > NoReplyHighDays THEN <<"no_reply_high">>
     ELSE IF lcd > NoReplyMediumDays THEN <<"no_reply_medium">> ELSE <<>>)
    \o
    (IF sad > StageAgeHighDays THEN <<"stage_age_high">>
     ELSE IF sad > StageAgeMediumDays THEN <<"stage_age_medium">> ELSE <<>>)

\* Lines 129-135: the features plus both trigger lists.  deal_id stands for
\* the opaque fields (deal_id, client_name, stage, deal_value), which only
\* enter the fingerprint.  A dict is a record plus the insertion order of
\* its keys (field order); dict(features) keeps the order of the caller
\* and the two new keys are inserted last.
guarded_feats(f) ==
    [ deal_id |-> f.deal_id,
      last_contact_days |-> f.last_contact_days,
      stage_age_days |-> f.stage_age_days,
      last_message_text |-> f.last_message_text,
      active_triggers |-> active_triggers(f.last_contact_days, f.stage_age_days),
      semantic_triggers |-> semantic_triggers(f.last_message_text),
      order |-> f.order \o <<"active_triggers", "semantic_triggers">> ]

\* The position of a key in the alphabetical order of the six keys.
KeyRank(name) ==
    CASE name = "active_triggers" -> 1
      [] name = "deal_id" -> 2
      [] name = "last_contact_days" -> 3
      [] name = "last_message_text" -> 4
      [] name = "semantic_triggers" -> 5
      [] name = "stage_age_days" -> 6

\* sorted() on a list of distinct keys.
SortKeys(ord) ==
    LET names == {ord[i] : i \in 1..Len(ord)}
    IN  [i \in 1..Len(ord) |->
            CHOOSE n \in names :
                Cardinality({m \in names : KeyRank(m) < KeyRank(n)}) = i - 1]

\* Mutant of _hash_features: json.dumps without sort_keys, which writes
\* the keys in insertion order.
HashInsertionOrder(g) == g

\* json.dumps(sort_keys=True) writes the items in the order of their keys;
\* sha256 of the text is modelled as the text (no collisions).
_hash_features(g) == [g EXCEPT !.order = SortKeys(g.order)]

Key(f) == _hash_features(guarded_feats(f))

(***************************************************************************)
(* Floats, strings                                                         *)
(***************************************************************************)

Num(v) == [k |-> "num", v |-> v]
NaN == [k |-> "nan", v |-> 0]
PosInf == [k |-> "inf", v |-> 0]
NegInf == [k |-> "ninf", v |-> 0]
FloatError == [k |-> "err", v |-> 0]

\* float("...") on the strings of the modelled vocabulary.
FloatOfStr(s) ==
    CASE s = "1.5" -> Num(1500)
      [] s = "0.3" -> Num(300)
      [] s = "nan" -> NaN
      [] OTHER -> FloatError

DefaultScore == 1000

\* float(obj.get("score", 1.0)): ValueError / TypeError is FloatError.
ScoreToFloat(j) ==
    CASE j.k = "missing" -> Num(DefaultScore)
      [] j.k = "num" -> Num(j.v)
      [] j.k = "nan" -> NaN
      [] j.k = "inf" -> PosInf
      [] j.k = "ninf" -> NegInf
      [] j.k = "true" -> Num(1000)
      [] j.k = "str" -> FloatOfStr(j.s)
      [] OTHER -> FloatError

\* x < bound and x > bound on floats (every comparison with nan is false).
FloatLt(x, bound) == \/ x.k = "ninf"
                     \/ x.k = "num" /\ x.v < bound
FloatGt(x, bound) == \/ x.k = "inf"
                     \/ x.k = "num" /\ x.v > bound

ScoreMin == 0
ScoreMax == 2000
GuardFloor == 900

\* Lines 178-179.
Clamp(x) ==
    LET a == IF FloatLt(x, ScoreMin) THEN Num(ScoreMin) ELSE x
    IN  IF FloatGt(a, ScoreMax) THEN Num(ScoreMax) ELSE a

\* round(score, 2) on thousandths: round half to even, which is what
\* Python does on the ties that are exact in binary (x.125, x.375, ...);
\* the model draws no other tie.
Round2(x) ==
    IF x.k # "num" THEN x
    ELSE LET q == x.v \div 10
             r == x.v % 10
         IN  IF r < 5 THEN Num(q * 10)
             ELSE IF r > 5 THEN Num((q + 1) * 10)
             ELSE IF q % 2 = 0 THEN Num(q * 10) ELSE Num((q + 1) * 10)

\* s.strip(chars) on a token sequence.
Strip(s, chars) ==
    LET keep == {i \in 1..Len(s) : s[i] \notin chars}
    IN  IF keep = {} THEN <<>>
        ELSE LET lo == CHOOSE i \in keep : \A j \in keep : i <= j
                 hi == CHOOSE i \in keep : \A j \in keep : j <= i
             IN  SubSeq(s, lo, hi)

Whitespace == {" "}

\* str(obj.get(key, "")) for reason and action.
TextOf(j) ==
    CASE j.k = "missing" -> <<>>
      [] j.k = "null" -> <<"None">>
      [] OTHER -> j.t

\* str(obj.get("level", "yellow")).lower()
LevelOf(j) ==
    CASE j.k = "missing" -> "yellow"
      [] j.k = "null" -> LowerWord("None")
      [] OTHER -> LowerWord(j.s)

Levels == {"green", "yellow", "red"}

\* Words that contain the substring "perenos" / "pozzhe" (the test is case
\* sensitive: "Perenos" does not) and words that begin with "svyazh".
PerenosWords == {"perenos", "perenosa"}
PozzheWords == {"pozzhe"}
SvyazhWords == {"svyazhites", "svyazhemsya"}

Contains(s, words) == \E i \in 1..Len(s) : s[i] \in words

ReasonPlaceholder == <<"prichina", " ", "ne", " ", "ukazana">>
ActionPlaceholder == <<"Svyazatsya", " ", "s", " ", "klientom", " ", "segodnya">>
DeferralNote == <<";", " ", "perenos", " ", "obsuzhdeniya">>
ScheduleAction == <<"Zaplanirujte", " ", "slot", " ", "na", " ", "sleduyushchej", " ", "nedele">>

\* Line 194.
Fallback ==
    [ score |-> Num(1000), level |-> "yellow",
      reason |-> <<"fallback:", " ", "ne", " ", "udalos", " ", "rasparsit", " ", "otvet">>,
      action |-> <<"Svyazatsya", " ", "s", " ", "klientom">> ]

(***************************************************************************)
(* Completion text, JSON extraction                                        *)
(***************************************************************************)

Missing == [k |-> "missing", v |-> 0, s |-> ""]
MissingText == [k |-> "missing", t |-> <<>>]
MissingLevel == [k |-> "missing", s |-> ""]
EmptyObj == [score |-> Missing, level |-> MissingLevel, reason |-> MissingText, action |-> MissingText]

\* The completion text is a sequence of segments: "lb" is an opening brace,
\* "rb" a closing brace, "prose" text without braces, "members" the
\* key / value list of a JSON object (without its braces).
LB == [k |-> "lb", obj |-> EmptyObj]
RB == [k |-> "rb", obj |-> EmptyObj]
Prose == [k |-> "prose", obj |-> EmptyObj]
Members(o) == [k |-> "members", obj |-> o]
ObjText(o) == <<LB, Members(o), RB>>

NoMatch == [ok |-> FALSE, obj |-> EmptyObj]

\* Mutant of _extract_json_block: a text without a brace span is read as
\* the empty object instead of raising.
ExtractLenient(segs) ==
    LET opens == {i \in 1..Len(segs) : segs[i].k = "lb"}
    IN  IF opens = {} THEN [ok |-> TRUE, obj |-> EmptyObj]
        ELSE LET lo == CHOOSE i \in opens : \A j \in opens : i <= j
                 closes == {i \in lo..Len(segs) : segs[i].k = "rb"}
             IN  IF closes = {} THEN [ok |-> TRUE, obj |-> EmptyObj]
                 ELSE LET hi == CHOOSE i \in closes : \A j \in closes : j <= i
                          span == SubSeq(segs, lo, hi)
                      IN  IF Len(span) = 2 THEN [ok |-> TRUE, obj |-> EmptyObj]
                          ELSE IF Len(span) = 3 /\ span[2].k = "members"
                               THEN [ok |-> TRUE, obj |-> span[2].obj]
                          ELSE NoMatch

\* Lines 40-43: re.search(r"\{.*\}", text, re.S) is greedy, from the first
\* "{" to the last "}" after it; json.loads accepts the span only when it
\* is one object.  ok = FALSE stands for the ValueError raised.
_extract_json_block(segs) ==
    LET opens == {i \in 1..Len(segs) : segs[i].k = "lb"}
    IN  IF opens = {} THEN NoMatch
        ELSE LET lo == CHOOSE i \in opens : \A j \in opens : i <= j
                 closes == {i \in lo..Len(segs) : segs[i].k = "rb"}
             IN  IF closes = {} THEN NoMatch
                 ELSE LET hi == CHOOSE i \in closes : \A j \in closes : j <= i
                          span == SubSeq(segs, lo, hi)
                      IN  IF Len(span) = 2 THEN [ok |-> TRUE, obj |-> EmptyObj]
                          ELSE IF Len(span) = 3 /\ span[2].k = "members"
                               THEN [ok |-> TRUE, obj |-> span[2].obj]
                          ELSE NoMatch

(***************************************************************************)
(* Validation, guard, fallback (lines 172-194)                             *)
(***************************************************************************)

\* Mutant of Validated: the level is not checked against the three bands
\* and blank texts are not replaced by the placeholders.
ValidatedNoDefaults(obj) ==
    [ score |-> Clamp(ScoreToFloat(obj.score)),
      level |-> LevelOf(obj.level),
      reason |-> Strip(TextOf(obj.reason), Whitespace),
      action |-> Strip(TextOf(obj.action), Whitespace) ]

\* Lines 174-181: the validated fields, before the guard.
Validated(obj) ==
    LET lv == LevelOf(obj.level)
        rs == Strip(TextOf(obj.reason), Whitespace)
        ac == Strip(TextOf(obj.action), Whitespace)
    IN  [ score |-> Clamp(ScoreToFloat(obj.score)),
          level |-> IF lv \in Levels THEN lv ELSE "yellow",
          reason |-> IF rs = <<>> THEN ReasonPlaceholder ELSE rs,
          action |-> IF ac = <<>> THEN ActionPlaceholder ELSE ac ]

GuardFires(v, sem) == InSeq("postpone", sem) /\ v.level = "green"

\* Mutant of Guard: the postpone guard is missing.
GuardOff(v, sem) == v

\* Mutant of Guard: the guard does not look at the level.
GuardIgnoresLevel(v, sem) ==
    IF InSeq("postpone", sem)
    THEN [ score |-> IF FloatLt(v.score, GuardFloor) THEN Num(GuardFloor) ELSE v.score,
           level |-> "yellow",
           reason |-> IF ~Contains(v.reason, PerenosWords) /\ ~Contains(v.reason, PozzheWords)
                      THEN Strip(Strip(v.reason \o DeferralNote, {";", " "}), Whitespace)
                      ELSE v.reason,
           action |-> IF v.action = <<>> \/ LowerWord(v.action[1]) \in SvyazhWords
                      THEN ScheduleAction ELSE v.action ]
    ELSE v

\* Lines 183-190.
Guard(v, sem) ==
    IF GuardFires(v, sem)
    THEN [ score |-> IF FloatLt(v.score, GuardFloor) THEN Num(GuardFloor) ELSE v.score,
           level |-> "yellow",
           reason |-> IF ~Contains(v.reason, PerenosWords) /\ ~Contains(v.reason, PozzheWords)
                      THEN Strip(Strip(v.reason \o DeferralNote, {";", " "}), Whitespace)
                      ELSE v.reason,
           action |-> IF v.action = <<>> \/ LowerWord(v.action[1]) \in SvyazhWords
                      THEN ScheduleAction ELSE v.action ]
    ELSE v

\* Mutant of Verdict: an object that lacks one of the four keys is treated
\* as a parse failure.
VerdictStrict(content, sem) ==
    IF content.k # "text" THEN Fallback
    ELSE LET m == _extract_json_block(content.segs)
         IN  IF ~m.ok THEN Fallback
             ELSE IF \/ ScoreToFloat(m.obj.score).k = "err"
                     \/ "missing" \in {m.obj.score.k, m.obj.level.k, m.obj.reason.k, m.obj.action.k}
                  THEN Fallback
             ELSE LET g == Guard(Validated(m.obj), sem)
                  IN  [score |-> Round2(g.score), level |-> g.level,
                       reason |-> g.reason, action |-> g.action]

\* Lines 172-194: the verdict for a completion content.  Every exception
\* inside the try (no brace span, invalid JSON, float() failing, content
\* that is not a string) ends in the fallback verdict.
Verdict(content, sem) ==
    IF content.k # "text" THEN Fallback
    ELSE LET m == _extract_json_block(content.segs)
         IN  IF ~m.ok THEN Fallback
             ELSE IF ScoreToFloat(m.obj.score).k = "err" THEN Fallback
             ELSE LET g == Guard(Validated(m.obj), sem)
                  IN  [score |-> Round2(g.score), level |-> g.level,
                       reason |-> g.reason, action |-> g.action]

(***************************************************************************)
(* Inputs explored                                                         *)
(***************************************************************************)

\* The order in which the dict literal of app_streamlit.py (lines 387-395)
\* inserts the keys, and another order a caller may use.
LiteralOrder == <<"deal_id", "last_contact_days", "stage_age_days", "last_message_text">>
OtherOrder == <<"last_message_text", "stage_age_days", "deal_id", "last_contact_days">>

Deal(id, lcd, sad, text) ==
    [deal_id |-> id, last_contact_days |-> lcd, stage_age_days |-> sad,
     last_message_text |-> text, order |-> LiteralOrder]

\* The same dict built by inserting the keys in another order.
Reordered(f, ord) == [f EXCEPT !.order = ord]

\* "let's talk later" (postpone), a neutral message, "that is expensive"
\* (price objection).
PostponeDeal == Deal("d1", 20, 3, <<"Davajte", "Pozzhe">>)
NeutralDeal == Deal("d2", 3, 0, <<"spasibo">>)
PriceDeal == Deal("d1", 20, 3, <<"eto", "DOROGO">>)

\* Deals of the multi-call specification: two feature records, each in two
\* insertion orders.
Deals == {PostponeDeal, NeutralDeal,
          Reordered(PostponeDeal, OtherOrder), Reordered(NeutralDeal, OtherOrder)}

\* Deals of the single-call specification: more messages, among them near
\* misses of the postpone patterns.
VerdictDeals ==
    { PostponeDeal, NeutralDeal, PriceDeal, Deal("d3", 9, 9, <<"Cherez", "nedelyu", "sozvonimsya">>),
      Deal("d4", 15, 15, <<"na", "sleduyushchej", "nedele">>),
      Deal("d5", 0, 0, <<>>),
      Deal("d6", 9999, 0, <<"cherez", "mesyac">>) }

JNum(v) == [k |-> "num", v |-> v, s |-> ""]
JStr(x) == [k |-> "str", v |-> 0, s |-> x]
JKind(kind) == [k |-> kind, v |-> 0, s |-> ""]
JLevel(x) == [k |-> "str", s |-> x]
JText(t) == [k |-> "str", t |-> t]
NullText == [k |-> "null", t |-> <<>>]
NullLevel == [k |-> "null", s |-> ""]

Obj(sc, lv, rs, ac) == [score |-> sc, level |-> lv, reason |-> rs, action |-> ac]

ScoreVals ==
    { Missing, JKind("null"), JKind("nan"), JKind("inf"), JKind("ninf"), JKind("true"),
      JStr("abc"), JStr("1.5"),
      JNum(-3000), JNum(0), JNum(100), JNum(500), JNum(899), JNum(900), JNum(1125),
      JNum(1996), JNum(2000), JNum(5000) }

LevelVals ==
    { MissingLevel, NullLevel, JLevel("green"), JLevel("GREEN"), JLevel("yellow"),
      JLevel("red"), JLevel("orange") }

ReasonVals ==
    { MissingText, NullText, JText(<<" ">>), JText(<<"klient", " ", "molchit">>),
      JText(<<"klient", " ", "prosit", " ", "perenos", ";">>),
      JText(<<"Perenos", " ", "vstrechi", ";", " ">>) }

ActionVals ==
    { MissingText, JText(<<" ", " ">>), JText(<<" ", "Svyazhites", " ", "s", " ", "klientom">>),
      JText(<<"Pozvonit", " ", "zavtra">>) }

Text(segs) == [k |-> "text", segs |-> segs]
Answer(kind) == [k |-> kind, segs |-> <<>>]
NoData == Answer("none")

\* Answers with which an attempt fails inside _post: requests.post or
\* raise_for_status raising, or r.json() raising on a body that is not JSON.
FailureAnswers == {Answer("http_error"), Answer("bad_json")}

\* Bodies without the choices[0].message.content structure, and with a
\* content that is null instead of a string.
NoChoices == Answer("no_choices")
NullContent == Answer("null_content")

GoodObj == Obj(JNum(500), JLevel("green"), JText(<<"klient", " ", "molchit">>),
               JText(<<"Pozvonit", " ", "zavtra">>))

\* Completion texts without any object that json.loads accepts.
BrokenTexts ==
    { Text(<<>>), Text(<<Prose>>), Text(<<Prose, LB, Prose>>), Text(<<RB, Prose, LB>>),
      Text(<<LB, Prose, RB>>),
      Text(ObjText(GoodObj) \o <<Prose>> \o ObjText(GoodObj)),
      Text(<<LB, Prose, RB, Prose>> \o ObjText(GoodObj)) }

Wrapped(o) == {Text(ObjText(o)), Text(<<Prose>> \o ObjText(o) \o <<Prose>>)}

\* The answers of the multi-call specification: scores below, inside and
\* above the range and not a number, every kind of level, present and
\* absent texts.
CoreObjs ==
    { Obj(sc, lv, ra[1], ra[2]) :
        sc \in {JKind("nan"), JStr("abc"), JNum(-3000), JNum(500), JNum(2000), JNum(5000)},
        lv \in {MissingLevel, JLevel("green"), JLevel("GREEN"), JLevel("red"), JLevel("orange")},
        ra \in { <<MissingText, JText(<<" ", "Svyazhites", " ", "s", " ", "klientom">>)>>,
                 <<JText(<<"klient", " ", "molchit">>), JText(<<" ", " ">>)>> } }

CoreAnswers ==
    FailureAnswers \cup {NoChoices, NullContent, Text(<<Prose>>), Text(<<LB, RB>>)}
    \cup {Text(<<Prose>> \o ObjText(o) \o <<Prose>>) : o \in CoreObjs}

\* The answers of the single-call specification: every combination of the
\* field values above, bare and wrapped in prose, plus the broken texts.
AllObjs ==
    {Obj(sc, lv, rs, ac) : sc \in ScoreVals, lv \in LevelVals, rs \in ReasonVals, ac \in ActionVals}

VerdictAnswers ==
    {NoChoices, NullContent, Text(<<LB, RB>>)} \cup BrokenTexts
    \cup UNION {Wrapped(o) : o \in AllObjs}

(***************************************************************************)
(* State machine                                                           *)
(***************************************************************************)

NoVerdict == [score |-> Num(0), level |-> "", reason |-> <<>>, action |-> <<>>]
NoFeatures == Deal("", 0, 0, <<>>)
EmptyCache == [x \in {} |-> NoVerdict]

\* No batch run (the refresh button was not clicked), no thread.
NoBatch ==
    /\ rows = <<>>
    /\ row_idx = 0
    /\ results = <<>>
    /\ df_out = <<>>
    /\ bpc = "ready"

Threads == {1, 2}
IdleThread == [pc |-> "idle", features |-> NoFeatures, hit |-> FALSE, result |-> NoVerdict]
NoThreads == [t \in Threads |-> IdleThread]

Init ==
    /\ max_retries \in 0..MaxRetries
    /\ cache = EmptyCache
    /\ pc = "idle"
    /\ features = NoFeatures
    /\ attempt = 0
    /\ sent = 0
    /\ data = NoData
    /\ outcome = "none"
    /\ hit = FALSE
    /\ result = NoVerdict
    /\ error = ""
    /\ NoBatch
    /\ inv = NoThreads

Return(v, fromCache) ==
    /\ pc' = "idle"
    /\ outcome' = "returned"
    /\ hit' = fromCache
    /\ result' = v
    /\ error' = ""

Raise(e) ==
    /\ pc' = "idle"
    /\ outcome' = "raised"
    /\ hit' = FALSE
    /\ result' = NoVerdict
    /\ error' = e

\* data["choices"][0]["message"]["content"] (line 170): the content, when
\* the body has that structure.
ContentOf(resp) ==
    IF resp.k = "null_content" THEN [k |-> "null", segs |-> <<>>]
    ELSE [k |-> "text", segs |-> resp.segs]

\* Mutant of Complete: the store replaces the whole cache by the new entry.
CompleteEvicts(resp) ==
    IF resp.k = "no_choices"
    THEN /\ Raise("KeyError")
         /\ UNCHANGED cache
    ELSE LET out == Verdict(ContentOf(resp), semantic_triggers(features.last_message_text))
             key == Key(features)
         IN  /\ cache' = [x \in {key} |-> out]
             /\ Return(out, FALSE)

\* Mutant of Complete: a fallback verdict is returned but not stored.
CompleteSkipsFallback(resp) ==
    IF resp.k = "no_choices"
    THEN /\ Raise("KeyError")
         /\ UNCHANGED cache
    ELSE LET out == Verdict(ContentOf(resp), semantic_triggers(features.last_message_text))
             key == Key(features)
         IN  /\ cache' = IF out = Fallback THEN cache
                         ELSE [x \in DOMAIN cache \cup {key} |-> IF x = key THEN out ELSE cache[x]]
             /\ Return(out, FALSE)

\* Lines 170-197, once _post has returned the body resp.  The subscript of
\* line 170 is outside the try: a body without the structure raises.
Complete(resp) ==
    IF resp.k = "no_choices"
    THEN /\ Raise("KeyError")
         /\ UNCHANGED cache
    ELSE LET out == Verdict(ContentOf(resp), semantic_triggers(features.last_message_text))
             key == Key(features)
         IN  /\ cache' = [x \in DOMAIN cache \cup {key} |-> IF x = key THEN out ELSE cache[x]]
             /\ Return(out, FALSE)

\* Mutant of Call: the cache is not consulted.
CallNoCache(f) ==
    /\ pc = "idle"
    /\ features' = f
    /\ sent' = 0
    /\ data' = NoData
    /\ UNCHANGED <<max_retries, cache>>
    /\ IF max_retries < 1
       THEN /\ Raise("TypeError")
            /\ attempt' = 0
       ELSE /\ pc' = "post"
            /\ attempt' = 1
            /\ outcome' = "none"
            /\ hit' = FALSE
            /\ result' = NoVerdict
            /\ error' = ""

\* assess_risk_llm up to its first request (lines 115-139, 168-169 and the
\* entry of the loop of _post).
Call(f) ==
    /\ pc = "idle"
    /\ features' = f
    /\ sent' = 0
    /\ data' = NoData
    /\ UNCHANGED <<max_retries, cache>>
    /\ IF Key(f) \in DOMAIN cache
       THEN /\ Return(cache[Key(f)], TRUE)
            /\ attempt' = 0
       ELSE IF max_retries < 1
       THEN /\ Raise("TypeError")      \* range(1, 1) is empty: raise None
            /\ attempt' = 0
       ELSE /\ pc' = "post"
            /\ attempt' = 1
            /\ outcome' = "none"
            /\ hit' = FALSE
            /\ result' = NoVerdict
            /\ error' = ""

\* Mutant of Post: the loop gives up one attempt early
\* (attempt >= max_retries - 1 instead of attempt == max_retries).
PostGivesUpEarly(resp) ==
    /\ pc = "post"
    /\ sent' = sent + 1
    /\ data' = resp
    /\ UNCHANGED <<max_retries, features>>
    /\ IF resp \in FailureAnswers
       THEN /\ UNCHANGED cache
            /\ IF attempt >= max_retries - 1
               THEN /\ Raise(IF resp.k = "http_error" THEN "HTTPError" ELSE "JSONDecodeError")
                    /\ UNCHANGED attempt
               ELSE /\ attempt' = attempt + 1
                    /\ UNCHANGED <<pc, outcome, hit, result, error>>
       ELSE /\ UNCHANGED attempt
            /\ Complete(resp)

\* Mutant of Post: when the last attempt fails the failure is swallowed,
\* the fallback verdict is stored and returned.
PostSwallowsFailure(resp) ==
    /\ pc = "post"
    /\ sent' = sent + 1
    /\ data' = resp
    /\ UNCHANGED <<max_retries, features>>
    /\ IF resp \in FailureAnswers
       THEN IF attempt = max_retries
            THEN /\ cache' = [x \in DOMAIN cache \cup {Key(features)} |->
                                 IF x = Key(features) THEN Fallback ELSE cache[x]]
                 /\ Return(Fallback, FALSE)
                 /\ UNCHANGED attempt
            ELSE /\ attempt' = attempt + 1
                 /\ UNCHANGED <<cache, pc, outcome, hit, result, error>>
       ELSE /\ UNCHANGED attempt
            /\ Complete(resp)

\* One iteration of the loop of _post (lines 63-72) and, when the request
\* succeeds, the rest of assess_risk_llm.
Post(resp) ==
    /\ pc = "post"
    /\ sent' = sent + 1
    /\ data' = resp
    /\ UNCHANGED <<max_retries, features>>
    /\ IF resp \in FailureAnswers
       THEN /\ UNCHANGED cache
            /\ IF attempt = max_retries
               THEN /\ Raise(IF resp.k = "http_error" THEN "HTTPError" ELSE "JSONDecodeError")
                    /\ UNCHANGED attempt
               ELSE /\ attempt' = attempt + 1       \* time.sleep, next iteration
                    /\ UNCHANGED <<pc, outcome, hit, result, error>>
       ELSE /\ UNCHANGED attempt
            /\ Complete(resp)

\* assess_risk_llm called directly, one call after the other.
DirectCall(f) == Call(f) /\ UNCHANGED <<batchvars, inv>>
DirectPost(resp) == Post(resp) /\ UNCHANGED <<batchvars, inv>>

Next ==
    \/ \E f \in Deals : DirectCall(f)
    \/ \E resp \in CoreAnswers : DirectPost(resp)

Spec == Init /\ [][Next]_vars

\* Single-call specification: a first call (empty cache) whose request has
\* just been answered with a body; Finish is the rest of assess_risk_llm.
InitVerdict ==
    /\ max_retries = 1
    /\ cache = EmptyCache
    /\ pc = "received"
    /\ features \in VerdictDeals
    /\ attempt = 1
    /\ sent = 1
    /\ data \in VerdictAnswers
    /\ outcome = "none"
    /\ hit = FALSE
    /\ result = NoVerdict
    /\ error = ""
    /\ NoBatch
    /\ inv = NoThreads

Finish ==
    /\ pc = "received"
    /\ UNCHANGED <<max_retries, features, attempt, sent, data, batchvars, inv>>
    /\ Complete(data)

NextVerdict == Finish

SpecVerdict == InitVerdict /\ [][NextVerdict]_vars

\* Largest day count explored by the threshold specification (9999, the
\* sentinel of _days_since_any, is explored as well).
MaxDays == 16

UnknownDays == 9999

TriggerDeals ==
    { Deal("d1", lcd, sad, <<"spasibo">>) :
        lcd \in 0..MaxDays \cup {UnknownDays}, sad \in 0..MaxDays }

\* Threshold specification: a first call for every pair of day counts,
\* answered with a verdict or with prose; Finish stores the verdict under
\* the fingerprint, which holds the active_triggers computed at line 118.
InitTriggers ==
    /\ max_retries = 1
    /\ cache = EmptyCache
    /\ pc = "received"
    /\ features \in TriggerDeals
    /\ attempt = 1
    /\ sent = 1
    /\ data \in {Text(ObjText(GoodObj)), Text(<<Prose>>)}
    /\ outcome = "none"
    /\ hit = FALSE
    /\ result = NoVerdict
    /\ error = ""
    /\ NoBatch
    /\ inv = NoThreads

NextTriggers == Finish

SpecTriggers == InitTriggers /\ [][NextTriggers]_vars

(***************************************************************************)
(* Batch run of app_streamlit.py                                           *)
(***************************************************************************)

\* A date cell of a row: None, the empty string, a string pd.to_datetime
\* coerces to NaT ("garbage"), a timezone-aware date (subtracting it from
\* the naive now raises inside the try), or a date that lies delta days
\* back, delta being (pd.Timestamp(now) - dt).days, negative in the future.
DateCell(kind, delta) == [k |-> kind, delta |-> delta]
NoDate == DateCell("none", 0)
DateAgo(delta) == DateCell("date", delta)

Max(a, b) == IF a >= b THEN a ELSE b

\* Mutant of _days_since_any: the count is not clamped at 0.
DaysSinceNoClamp(s) ==
    IF s.k \in {"none", "empty"} THEN UnknownDays
    ELSE IF s.k = "garbage" THEN UnknownDays
    ELSE IF s.k = "aware" THEN UnknownDays
    ELSE s.delta

\* Lines 347-354.
_days_since_any(s) ==
    IF s.k \in {"none", "empty"} THEN UnknownDays        \* if not s
    ELSE IF s.k = "garbage" THEN UnknownDays              \* pd.isna(dt)
    ELSE IF s.k = "aware" THEN UnknownDays                \* except Exception
    ELSE Max(0, s.delta)

\* Lines 356-363.
_stage_age_days(s) ==
    IF s.k \in {"none", "empty"} THEN 0
    ELSE IF s.k = "garbage" THEN 0
    ELSE IF s.k = "aware" THEN 0
    ELSE Max(0, s.delta)

Row(id, contact, stage, text) ==
    [deal_id |-> id, last_contact_date |-> contact,
     last_stage_change_date |-> stage, last_message_text |-> text]

\* Lines 387-395: the dict literal built for a row.
Feats(row) ==
    Deal(row.deal_id, _days_since_any(row.last_contact_date),
         _stage_age_days(row.last_stage_change_date), row.last_message_text)

\* Longest batch, and largest distance in days of a date from now, explored.
MaxBatch == 3
MaxDelta == 2

\* normalize_to_df leaves last_stage_change_date at None.
BatchRows ==
    { Row("d1", DateAgo(20), NoDate, <<"Davajte", "Pozzhe">>),
      Row("d2", DateAgo(3), NoDate, <<"spasibo">>) }

DateCells ==
    {DateCell(kind, 0) : kind \in {"none", "empty", "garbage", "aware"}}
    \cup {DateAgo(d) : d \in (0 - MaxDelta)..MaxDelta}

DateRows == {Row("d3", c, g, <<"spasibo">>) : c \in DateCells, g \in DateCells}

\* The batches explored: every sequence of one to MaxBatch of the two
\* rows, and every single row of the date grid.
Batches ==
    UNION {[1..n -> BatchRows] : n \in 1..MaxBatch} \cup {<<r>> : r \in DateRows}

BatchAnswers ==
    { Answer("http_error"), NoChoices, Text(<<Prose>>), Text(ObjText(GoodObj)),
      Text(ObjText(Obj(JNum(2000), JLevel("red"), MissingText, MissingText))) }

\* Lines 383-398: the refresh button was clicked, the deals were loaded
\* into df (not empty) and the four lists are empty.
Refresh(rs) ==
    /\ bpc = "ready"
    /\ pc = "idle"
    /\ rows' = rs
    /\ row_idx' = 1
    /\ results' = <<>>
    /\ bpc' = "loop"
    /\ UNCHANGED <<max_retries, cache, callvars, df_out, inv>>

\* Lines 396-410, after a step of the call made for the current row: when
\* the call has returned, its verdict is appended and the loop moves on,
\* after the last row df_out is stored in the session state; when the call
\* has raised, nothing catches the exception and the script run ends.
AfterStep ==
    IF pc' = "post" THEN UNCHANGED batchvars
    ELSE IF outcome' = "returned"
    THEN /\ results' = Append(results, result')
         /\ UNCHANGED rows
         /\ IF row_idx = Len(rows)
            THEN /\ df_out' = results'
                 /\ bpc' = "done"
                 /\ UNCHANGED row_idx
            ELSE /\ row_idx' = row_idx + 1
                 /\ UNCHANGED <<df_out, bpc>>
    ELSE /\ bpc' = "aborted"
         /\ UNCHANGED <<rows, row_idx, results, df_out>>

\* Lines 386-396: the features of the current row and the call.
BatchCall ==
    /\ bpc = "loop"
    /\ Call(Feats(rows[row_idx]))
    /\ AfterStep
    /\ UNCHANGED inv

BatchPost(resp) ==
    /\ bpc = "loop"
    /\ Post(resp)
    /\ AfterStep
    /\ UNCHANGED inv

NextBatch ==
    \/ \E rs \in Batches : Refresh(rs)
    \/ BatchCall
    \/ \E resp \in BatchAnswers : BatchPost(resp)

SpecBatch == Init /\ [][NextBatch]_vars

(***************************************************************************)
(* Unsynchronised concurrent invocations                                   *)
(***************************************************************************)

ConcDeals == {PostponeDeal, NeutralDeal}

ConcAnswers ==
    { Answer("http_error"), Text(<<Prose>>), Text(ObjText(GoodObj)),
      Text(ObjText(Obj(JNum(2000), JLevel("red"), MissingText, MissingText))) }

Thread(p, f, h, v) == [pc |-> p, features |-> f, hit |-> h, result |-> v]

\* Lines 115-139 and 168-169 in thread t: the cache check and, on a miss,
\* the request, which blocks the thread until the endpoint answers.
TCheck(t, f) ==
    /\ inv[t].pc # "post"
    /\ inv' = [inv EXCEPT ![t] =
                   IF Key(f) \in DOMAIN cache
                   THEN Thread("done", f, TRUE, cache[Key(f)])
                   ELSE Thread("post", f, FALSE, NoVerdict)]
    /\ UNCHANGED <<max_retries, cache, callvars, batchvars>>

\* Mutant of TAnswer: the store keeps an entry that is already there
\* (setdefault); the thread returns its own verdict.
TAnswerKeepsFirst(t, resp) ==
    /\ inv[t].pc = "post"
    /\ UNCHANGED <<max_retries, callvars, batchvars>>
    /\ IF resp \in FailureAnswers \/ resp.k = "no_choices"
       THEN /\ inv' = [inv EXCEPT ![t] = Thread("raised", inv[t].features, FALSE, NoVerdict)]
            /\ UNCHANGED cache
       ELSE LET f == inv[t].features
                key == Key(f)
                out == Verdict(ContentOf(resp), semantic_triggers(f.last_message_text))
            IN  /\ cache' = [x \in DOMAIN cache \cup {key} |->
                                 IF x \in DOMAIN cache THEN cache[x] ELSE out]
                /\ inv' = [inv EXCEPT ![t] = Thread("done", f, FALSE, out)]

\* Lines 63-72 with max_retries = 1 and lines 170-197 in thread t: the
\* answer to the request; a failure is raised, a verdict is stored under
\* the fingerprint, whatever the cache holds by now, and returned.
TAnswer(t, resp) ==
    /\ inv[t].pc = "post"
    /\ UNCHANGED <<max_retries, callvars, batchvars>>
    /\ IF resp \in FailureAnswers \/ resp.k = "no_choices"
       THEN /\ inv' = [inv EXCEPT ![t] = Thread("raised", inv[t].features, FALSE, NoVerdict)]
            /\ UNCHANGED cache
       ELSE LET f == inv[t].features
                key == Key(f)
                out == Verdict(ContentOf(resp), semantic_triggers(f.last_message_text))
            IN  /\ cache' = [x \in DOMAIN cache \cup {key} |-> IF x = key THEN out ELSE cache[x]]
                /\ inv' = [inv EXCEPT ![t] = Thread("done", f, FALSE, out)]

InitConc ==
    /\ max_retries = 1
    /\ cache = EmptyCache
    /\ pc = "idle"
    /\ features = NoFeatures
    /\ attempt = 0
    /\ sent = 0
    /\ data = NoData
    /\ outcome = "none"
    /\ hit = FALSE
    /\ result = NoVerdict
    /\ error = ""
    /\ NoBatch
    /\ inv = NoThreads

NextConc ==
    \/ \E t \in Threads : \E f \in ConcDeals : TCheck(t, f)
    \/ \E t \in Threads : \E resp \in ConcAnswers : TAnswer(t, resp)

SpecConc == InitConc /\ [][NextConc]_vars

(***************************************************************************)
(* Properties                                                              *)
(***************************************************************************)

Sem == semantic_triggers(features.last_message_text)
Postponed == InSeq("postpone", Sem)

\* The last call has returned a verdict computed from an answer (no hit).
Computed == pc = "idle" /\ outcome = "returned" /\ ~hit

\* The object json.loads produced from the last answer, if any.
Parsed == _extract_json_block(data.segs)
ParsedOK == data.k = "text" /\ Parsed.ok
ScoreOK == ScoreToFloat(Parsed.obj.score).k # "err"

InRange(x, lo, hi) == x.k = "num" /\ lo <= x.v /\ x.v <= hi

\* C1: once a verdict has been returned for a fingerprint, every later call
\* with that fingerprint returns the same verdict from the cache and sends
\* no request.  A returned verdict is the cache entry of its fingerprint;
\* entries never change; a call whose fingerprint is cached returns the
\* entry at once, with no request, and leaves the cache alone.
C1_ReturnedIsCached ==
    outcome = "returned" =>
        Key(features) \in DOMAIN cache /\ cache[Key(features)] = result

C1_HitStep ==
    /\ \A k \in DOMAIN cache : k \in DOMAIN cache' /\ cache'[k] = cache[k]
    /\ (pc = "idle" /\ Key(features') \in DOMAIN cache) =>
          /\ pc' = "idle" /\ outcome' = "returned" /\ hit'
          /\ result' = cache[Key(features')]
          /\ sent' = 0
          /\ cache' = cache

C1_Idempotent == [](C1_ReturnedIsCached) /\ [][C1_HitStep]_vars

\* A second call for a fingerprint was answered from the cache with a
\* verdict that came out of the parsed path.
C1_Witness ==
    /\ outcome = "returned" /\ hit /\ sent = 0
    /\ result = cache[Key(features)]
    /\ result # Fallback
    /\ Cardinality(DOMAIN cache) = 2

\* C2: a verdict returned or cached for a message with the postpone trigger
\* is never green, whatever the completion service answered, also on hits.
C2_PostponeNeverGreen ==
    /\ \A k \in DOMAIN cache :
          InSeq("postpone", k.semantic_triggers) => cache[k].level # "green"
    /\ (outcome = "returned" /\ Postponed) => result.level # "green"

\* A cache hit for a postponed deal whose stored verdict the guard rewrote.
C2_Witness ==
    /\ outcome = "returned" /\ hit /\ Postponed
    /\ result.level = "yellow"
    /\ Contains(result.reason, {"obsuzhdeniya"})

\* C3: with postpone and a parsed verdict of level green, whatever its
\* score, the verdict returned and stored is yellow with 0.9 <= score <= 2.0.
C3_GuardGreenToYellow ==
    (Computed /\ Postponed /\ ParsedOK /\ ScoreOK
        /\ LevelOf(Parsed.obj.level) = "green")
    => /\ result.level = "yellow"
       /\ InRange(result.score, 900, 2000)
       /\ cache[Key(features)] = result

\* Some opening brace is followed, later in the text, by a closing brace.
HasBraceSpan(segs) ==
    \E i \in 1..Len(segs) : \E j \in 1..Len(segs) :
        i < j /\ segs[i].k = "lb" /\ segs[j].k = "rb"

\* C4: a completion text without a brace-delimited span does not raise and
\* yields exactly the fixed fallback verdict (score 1.0, yellow).
C4_NoBraceFallback ==
    (pc = "idle" /\ data.k = "text" /\ ~HasBraceSpan(data.segs))
    => /\ outcome = "returned"
       /\ result = Fallback
       /\ result.score = Num(1000) /\ result.level = "yellow"

\* A text with braces in the wrong order ("} ... {") ended in the fallback.
C4_Witness ==
    /\ pc = "idle" /\ outcome = "returned"
    /\ data = Text(<<RB, Prose, LB>>)
    /\ result = Fallback

\* C5: whenever the endpoint answered the request successfully at the HTTP
\* level, the call returns a verdict and does not raise, whatever the body.
C5_HttpSuccessNeverRaises ==
    (pc = "idle" /\ data.k \in {"bad_json", "no_choices", "null_content", "text"})
    => outcome = "returned"

\* A key of the parsed object is missing or malformed: absent, a score that
\* is no number, a level outside the three bands, a text that is no string
\* or is blank.
BadText(j) == j.k # "str" \/ Strip(j.t, Whitespace) = <<>>
MissingOrMalformed(o) ==
    \/ o.score.k \notin {"num"}
    \/ o.level.k # "str" \/ LowerWord(o.level.s) \notin Levels
    \/ BadText(o.reason)
    \/ BadText(o.action)

\* C6 (as claimed): a parsed object with a missing or malformed required
\* key yields exactly the fixed fallback verdict.
C6_MissingKeyIsFallback ==
    (Computed /\ ParsedOK /\ MissingOrMalformed(Parsed.obj)) => result = Fallback

\* C6 (amended): only a score that cannot be converted to a float yields
\* the fallback verdict; otherwise each missing or malformed field takes
\* its own default (score 1.0, level yellow, reason and action their
\* placeholders, the reason then extended by the guard when it fires).
C6_FieldDefaults ==
    (Computed /\ ParsedOK) =>
        LET o == Parsed.obj
            fires == Postponed /\ o.level.k = "str" /\ LowerWord(o.level.s) = "green"
        IN  IF ~ScoreOK THEN result = Fallback
            ELSE /\ o.score.k = "missing" => result.score = Num(1000)
                 /\ (o.level.k # "str" \/ LowerWord(o.level.s) \notin Levels)
                       => result.level = "yellow"
                 /\ BadText(o.reason) /\ o.reason.k # "null" =>
                       result.reason = IF fires THEN ReasonPlaceholder \o DeferralNote
                                       ELSE ReasonPlaceholder
                 /\ BadText(o.action) => result.action = ActionPlaceholder

\* The object {} (every key missing) gave a verdict made of the defaults.
C6_Witness ==
    /\ Computed /\ ParsedOK /\ Parsed.obj = EmptyObj
    /\ result = [score |-> Num(1000), level |-> "yellow",
                 reason |-> ReasonPlaceholder, action |-> ActionPlaceholder]

\* C7: every verdict returned or cached has a score within [0, 2].
C7_ScoreInRange ==
    /\ \A k \in DOMAIN cache : InRange(cache[k].score, 0, 2000)
    /\ outcome = "returned" => InRange(result.score, 0, 2000)

Band(x) == IF x.v < 900 THEN "green" ELSE IF x.v < 2000 THEN "yellow" ELSE "red"

\* C8: the level of a returned verdict is the band of its score, except
\* when the postpone guard forced green up to yellow.
C8_LevelMatchesBand ==
    Computed =>
        \/ result.score.k = "num" /\ result.level = Band(result.score)
        \/ Postponed /\ ParsedOK /\ LevelOf(Parsed.obj.level) = "green"
             /\ result.level = "yellow"

WellFormed(v) ==
    /\ v.level \in Levels
    /\ Len(v.reason) > 0 /\ v.reason[1] # " " /\ v.reason[Len(v.reason)] # " "
    /\ Len(v.action) > 0 /\ v.action[1] # " " /\ v.action[Len(v.action)] # " "

\* C9: every verdict returned or cached is well formed: a level among the
\* three bands (any other parsed level is forced to yellow) and a reason
\* and an action that are not empty (not blank either).
C9_WellFormed ==
    /\ \A k \in DOMAIN cache : WellFormed(cache[k])
    /\ outcome = "returned" => WellFormed(result)
    /\ (Computed /\ ParsedOK /\ ScoreOK /\ LevelOf(Parsed.obj.level) \notin Levels)
          => result.level = "yellow"

\* The cache holds a guard-path verdict and a validated verdict whose
\* level was forced and whose blank action was replaced.
C9_Witness ==
    /\ Cardinality(DOMAIN cache) = 2
    /\ Contains(cache[Key(PostponeDeal)].reason, {"obsuzhdeniya"})
    /\ Computed /\ ParsedOK /\ ScoreOK
    /\ Parsed.obj.level = JLevel("orange")
    /\ result.action = ActionPlaceholder

\* C10: the loop of _post makes at most max_retries attempts, none after a
\* success; with N = max_retries >= 1, N - 1 failures then a success give a
\* verdict after exactly N attempts, and N failures raise after exactly N.
C10_Counts ==
    /\ sent <= max_retries
    /\ pc = "post" => attempt = sent + 1 /\ attempt <= max_retries
    /\ (pc = "idle" /\ outcome = "raised" /\ error \in {"HTTPError", "JSONDecodeError"})
          => sent = max_retries /\ data \in FailureAnswers
    /\ (Computed /\ max_retries >= 1) => sent = attempt /\ data \notin FailureAnswers

C10_Step ==
    pc = "post" =>
        /\ sent' = sent + 1
        /\ (data' \in FailureAnswers /\ sent' < max_retries) => pc' = "post" /\ outcome' = "none"
        /\ (data' \in FailureAnswers /\ sent' = max_retries) => pc' = "idle" /\ outcome' = "raised"
        /\ data' \notin FailureAnswers => pc' = "idle"
        /\ (data' \notin FailureAnswers /\ data' # NoChoices) => outcome' = "returned"

C10_Retry == [](C10_Counts) /\ [][C10_Step]_vars

\* With max_retries = 2 the first attempt failed and the second gave a
\* verdict.
C10_Witness ==
    /\ max_retries = 2 /\ Computed /\ sent = 2 /\ result # Fallback

\* The labels of one dimension in the active_triggers of a fingerprint.
LabelsIn(k, labels) == {i \in 1..Len(k.active_triggers) : k.active_triggers[i] \in labels}
NoReplyLabels == {"no_reply_high", "no_reply_medium"}
StageAgeLabels == {"stage_age_high", "stage_age_medium"}

\* C12: in every fingerprint, more than 14 days without contact give
\* no_reply_high and not no_reply_medium, more than 14 days in the stage
\* give stage_age_high and not stage_age_medium, and each dimension has at
\* most one label.
C12_HighExcludesMedium ==
    \A k \in DOMAIN cache :
        /\ k.last_contact_days > 14 =>
              InSeq("no_reply_high", k.active_triggers)
              /\ ~InSeq("no_reply_medium", k.active_triggers)
        /\ k.stage_age_days > 14 =>
              InSeq("stage_age_high", k.active_triggers)
              /\ ~InSeq("stage_age_medium", k.active_triggers)
        /\ Cardinality(LabelsIn(k, NoReplyLabels)) <= 1
        /\ Cardinality(LabelsIn(k, StageAgeLabels)) <= 1

\* The fingerprint stored for 15 and 15 days holds both high labels only.
C12_Witness ==
    /\ pc = "idle" /\ outcome = "returned"
    /\ features.last_contact_days = 15 /\ features.stage_age_days = 15
    /\ \E k \in DOMAIN cache : k.active_triggers = <<"no_reply_high", "stage_age_high">>

\* C13: for day counts in the closed range [7, 14] the dimension holds
\* exactly the medium label.
C13_ClosedRangeMedium ==
    \A k \in DOMAIN cache :
        /\ k.last_contact_days \in 7..14 =>
              {k.active_triggers[i] : i \in LabelsIn(k, NoReplyLabels)} = {"no_reply_medium"}
        /\ k.stage_age_days \in 7..14 =>
              {k.active_triggers[i] : i \in LabelsIn(k, StageAgeLabels)} = {"stage_age_medium"}

\* C11: a record whose classification raises does not end the batch run:
\* the loop goes on and, at its end, the result set holds the verdicts of
\* the records that did not fail.
C11_FailureDoesNotAbort ==
    (bpc # "ready" /\ Len(rows) >= 2 /\ pc = "idle"
        /\ outcome = "raised" /\ error = "HTTPError")
    => /\ bpc \in {"loop", "done"}
       /\ bpc = "done" => df_out = results

\* The row for which the last call was made.
CalledIdx == IF pc = "post" \/ bpc # "loop" THEN row_idx ELSE row_idx - 1
Absent(c) == c.k # "date"

\* C15: the day counts built for a row are never negative; a missing or
\* unparseable contact date gives 9999 and a missing or unparseable stage
\* date gives 0; a date in the future gives 0; a past date gives its age.
C15_DayCounts ==
    (bpc # "ready" /\ CalledIdx >= 1) =>
        LET r == rows[CalledIdx]
            c == r.last_contact_date
            g == r.last_stage_change_date
        IN  /\ features.last_contact_days >= 0
            /\ features.stage_age_days >= 0
            /\ Absent(c) => features.last_contact_days = 9999
            /\ Absent(g) => features.stage_age_days = 0
            /\ (~Absent(c) /\ c.delta < 0) => features.last_contact_days = 0
            /\ (~Absent(g) /\ g.delta < 0) => features.stage_age_days = 0
            /\ (~Absent(c) /\ c.delta >= 0) => features.last_contact_days = c.delta
            /\ (~Absent(g) /\ g.delta >= 0) => features.stage_age_days = g.delta

\* A row with a contact date in the future and a stage date that does not
\* parse was classified with 0 and 0 days.
C15_Witness ==
    /\ bpc = "done" /\ Len(rows) = 1
    /\ rows[1].last_contact_date = DateAgo(-1)
    /\ rows[1].last_stage_change_date.k = "garbage"
    /\ features.last_contact_days = 0 /\ features.stage_age_days = 0

\* C14: the cache only grows: a step keeps every entry as it is, and a
\* step that changes the cache adds exactly one entry, for a fingerprint
\* that had none (no overwrite, no eviction).
C14_CacheOnlyGrows ==
    [][ /\ \A k \in DOMAIN cache : k \in DOMAIN cache' /\ cache'[k] = cache[k]
        /\ cache' # cache =>
              /\ Key(features) \notin DOMAIN cache
              /\ DOMAIN cache' = DOMAIN cache \cup {Key(features)} ]_vars

\* A second entry was added while the first, a verdict rewritten by the
\* guard, stayed in place.
C14_Witness ==
    /\ Computed /\ features = NeutralDeal
    /\ DOMAIN cache = {Key(PostponeDeal), Key(NeutralDeal)}
    /\ cache[Key(PostponeDeal)].level = "yellow"
    /\ cache[Key(NeutralDeal)].level = "red"

\* The first well-formed JSON object of a text: an opening brace followed
\* by a closing brace, with nothing or a member list between them.
ObjectAt(segs, i) ==
    /\ segs[i].k = "lb"
    /\ \/ i + 1 <= Len(segs) /\ segs[i + 1].k = "rb"
       \/ i + 2 <= Len(segs) /\ segs[i + 1].k = "members" /\ segs[i + 2].k = "rb"
HasObject(segs) == \E i \in 1..Len(segs) : ObjectAt(segs, i)
FirstObject(segs) ==
    LET i == CHOOSE j \in 1..Len(segs) :
                 ObjectAt(segs, j) /\ \A h \in 1..(j - 1) : ~ObjectAt(segs, h)
    IN  IF segs[i + 1].k = "rb" THEN EmptyObj ELSE segs[i + 1].obj

\* C16: when the completion text contains a well-formed JSON object, the
\* verdict is the one parsed from the first such object, whatever stands
\* before and after it (prose, braces, a second object).
C16_FirstObjectParsed ==
    (Computed /\ data.k = "text" /\ HasObject(data.segs))
    => result = Verdict(Text(ObjText(FirstObject(data.segs))), Sem)

\* Two dicts with the same keys and values, whatever their key order.
SameFields(a, b) ==
    /\ a.deal_id = b.deal_id
    /\ a.last_contact_days = b.last_contact_days
    /\ a.stage_age_days = b.stage_age_days
    /\ a.last_message_text = b.last_message_text
    /\ a.active_triggers = b.active_triggers
    /\ a.semantic_triggers = b.semantic_triggers

\* C17: the fingerprint does not depend on the insertion order of the
\* fields: the cache never holds two entries for the same fields, and a
\* call whose fields equal those of a cached fingerprint is a cache hit,
\* whatever the order of its dict.
C17_OneEntryPerFields ==
    \A k1 \in DOMAIN cache : \A k2 \in DOMAIN cache : SameFields(k1, k2) => k1 = k2

C17_HitStep ==
    \A k \in DOMAIN cache :
        (pc = "idle" /\ SameFields(k, guarded_feats(features')))
        => pc' = "idle" /\ hit' /\ result' = cache[k] /\ sent' = 0

C17_OrderIndependent == [](C17_OneEntryPerFields) /\ [][C17_HitStep]_vars

\* A dict built in the other key order was answered from the cache.
C17_Witness ==
    /\ outcome = "returned" /\ hit
    /\ features.order = OtherOrder
    /\ Key(features) = Key(Reordered(features, LiteralOrder))
    /\ Cardinality(DOMAIN cache) = 1

TransportErrors == {"HTTPError", "JSONDecodeError"}

\* C19: when the last attempt fails the failure is raised and the cache is
\* left as it was, without an entry for the fingerprint; the next call with
\* the same features misses the cache and goes to the endpoint again.
C19_NothingStored ==
    (pc = "idle" /\ outcome = "raised") => Key(features) \notin DOMAIN cache

C19_Step ==
    /\ (pc = "post" /\ data' \in FailureAnswers /\ attempt = max_retries)
          => /\ outcome' = "raised" /\ error' \in TransportErrors
             /\ cache' = cache
    /\ (pc = "idle" /\ outcome = "raised" /\ error \in TransportErrors
           /\ Key(features') = Key(features))
          => pc' = "post" /\ outcome' = "none" /\ ~hit' /\ sent' = 0 /\ attempt' = 1

C19_FailureNotCached == [](C19_NothingStored) /\ [][C19_Step]_vars

\* Both attempts of a call failed; the entry of the other deal is still
\* the only one in the cache.
C19_Witness ==
    /\ pc = "idle" /\ outcome = "raised" /\ error = "HTTPError"
    /\ max_retries = 2 /\ sent = 2
    /\ Cardinality(DOMAIN cache) = 1
    /\ Key(features) \notin DOMAIN cache

\* The last answer took the except branch of line 192.
FallbackPath ==
    \/ data.k = "null_content"
    \/ data.k = "text" /\ (~Parsed.ok \/ ~ScoreOK)

\* C20: a fallback verdict is stored like any other verdict, and a later
\* call with the same fingerprint returns it from the cache without a
\* request.
C20_FallbackStored ==
    (Computed /\ FallbackPath) =>
        /\ result = Fallback
        /\ Key(features) \in DOMAIN cache
        /\ cache[Key(features)] = Fallback

C20_HitStep ==
    (pc = "idle" /\ Key(features') \in DOMAIN cache /\ cache[Key(features')] = Fallback)
    => /\ pc' = "idle" /\ outcome' = "returned" /\ hit'
       /\ result' = Fallback /\ sent' = 0
       /\ cache' = cache

C20_FallbackIsCached == [](C20_FallbackStored) /\ [][C20_HitStep]_vars

\* A later call was answered with the stored fallback verdict.
C20_Witness ==
    /\ outcome = "returned" /\ hit /\ sent = 0
    /\ result = Fallback
    /\ cache[Key(features)] = Fallback

Started(t) == inv[t].pc # "post" /\ inv'[t] # inv[t]

\* C18: without mutual exclusion the cache check and the store are
\* separate steps.  A thread that checks while the fingerprint is not yet
\* stored misses and sends a request, also when another thread is already
\* waiting for the answer to the same fingerprint; the store is
\* unconditional, so the thread that stores last replaces the entry of the
\* first.  Only a thread that checks after the store gets a hit without a
\* request.
C18_Step ==
    \A t \in Threads :
        /\ (Started(t) /\ Key(inv'[t].features) \notin DOMAIN cache)
              => inv'[t].pc = "post" /\ cache' = cache
        /\ (Started(t) /\ Key(inv'[t].features) \in DOMAIN cache)
              => /\ inv'[t].pc = "done" /\ inv'[t].hit
                 /\ inv'[t].result = cache[Key(inv'[t].features)]
                 /\ cache' = cache
        /\ (inv[t].pc = "post" /\ inv'[t].pc = "done")
              => /\ ~inv'[t].hit
                 /\ Key(inv[t].features) \in DOMAIN cache'
                 /\ cache'[Key(inv[t].features)] = inv'[t].result

C18_RaceOverwrites == [][C18_Step]_vars

\* Both threads missed the cache for the same fingerprint, both sent a
\* request, and the verdict the first had stored and returned was replaced
\* by the verdict of the second.
C18_Witness ==
    /\ inv[1].pc = "done" /\ inv[2].pc = "done"
    /\ ~inv[1].hit /\ ~inv[2].hit
    /\ Key(inv[1].features) = Key(inv[2].features)
    /\ inv[1].result # inv[2].result
    /\ cache[Key(inv[1].features)] = inv[2].result

\* The verdict line 191 builds from the fields v: the score is rounded to
\* two decimals, the other fields are taken as they are.
Rounded(v) ==
    [score |-> Round2(v.score), level |-> v.level, reason |-> v.reason, action |-> v.action]

\* C21: the postpone guard changes the validated fields only when postpone
\* is among the semantic triggers and the validated level is green; when
\* postpone is absent, or the validated level is yellow or red (whatever the
\* score), the verdict holds exactly the validated level, score, reason and
\* action; applying the guard to its own output, or to the returned
\* verdict, changes nothing.
C21_GuardFrame ==
    (Computed /\ ParsedOK /\ ScoreOK) =>
        LET v == Validated(Parsed.obj)
            g == Guard(v, Sem)
        IN  /\ (~Postponed \/ v.level \in {"yellow", "red"}) => g = v /\ result = Rounded(v)
            /\ g # v => Postponed /\ v.level = "green"
            /\ Guard(g, Sem) = g
            /\ Guard(result, Sem) = result

\* A postponing message was answered with level red and a score below 0.9,
\* and the verdict kept the level, the low score, the reason without a
\* deferral note and the action.
C21_Witness ==
    /\ Computed /\ ParsedOK /\ ScoreOK
    /\ Postponed
    /\ Validated(Parsed.obj).level = "red"
    /\ FloatLt(Validated(Parsed.obj).score, GuardFloor)
    /\ ~Contains(Validated(Parsed.obj).reason, PerenosWords \cup PozzheWords)
    /\ result = Rounded(Validated(Parsed.obj))

====
